---- MODULE Spec2Model ----
(***************************************************************************)
(* Model of the integrity service's ingest endpoint                        *)
(* (src/integrity_service/main.py): the durable event/anomaly tables, the   *)
(* per-user Redis sorted-set window, the commit retry policy, the breach    *)
(* and severity evaluation and the webhook alert.                           *)
(*                                                                         *)
(* Each request handler is a process that runs in one of the worker       *)
(* slots.  One step of a handler is one call that touches shared state: a   *)
(* db.commit() attempt, one Redis command, or the webhook POST.  The local  *)
(* computation between two such calls belongs to the step that follows the  *)
(* values it reads.  Time stamps are whole seconds since the epoch.         *)
(***************************************************************************)
EXTENDS Integers, Sequences, FiniteSets, TLC

(* ---------------------------------------------------------------- bounds *)

\* Ingest requests accepted over a behaviour.
MaxIngests == 3

\* config.yaml thresholds (the file is not part of the sources): the value
\* of the "stressed" key and of the "default" key.
StressedThreshold == 2

DefaultThreshold == 1

\* Inputs of the severity evaluation in SpecSeverity.
MaxThresh == 8

MaxCount == 14

\* Ingests of the run of events spaced more than one horizon apart.
MaxSpaced == 5

\* Scores of the windows and cutoffs the prune is applied to: -1..MaxScore
\* for members (a time stamp before 1970 has a negative score),
\* -HORIZON..MaxScore for cutoffs.
MaxScore == 5

(* ------------------------------------------------------------ the inputs *)

\* Worker slots: the ingest handlers that may be in flight at once.
Slots == {1, 2}

Users == {"u1", "u2"}

\* The user of the runs that look at one window.
SingleUser == {"u1"}

SignalTypes == {"stressed", "neutral"}

\* Event time stamps: equal ones, ones less than, exactly and more than the
\* horizon apart.
Timestamps == {36002, 36007, 36008}

WebhookOutcomes == {"ok", "non_success", "timeout", "network_error"}

NoEvent == [user_id |-> "", signal_type |-> "", timestamp |-> 0, tzinfo |-> ""]

(* --------------------------------------------------------- configuration *)

\* cfg["thresholds"]
THRESHOLDS == [stressed |-> StressedThreshold, default |-> DefaultThreshold]

\* timedelta(seconds=5)
HORIZON == 5

\* stop_after_attempt(3)
MaxAttempts == 3

VARIABLES
    WEBHOOK_URL,   \* TRUE iff cfg["webhook"]["url"] is a non-empty string
    has_default,   \* TRUE iff cfg["thresholds"] has a "default" key
    TZ,            \* the local time zone of the server process
    events,        \* rows of table "events", in id order
    anomalies,     \* rows of table "anomalies", in id order
    window,        \* Redis: user -> the sorted set "window:<user>" (member = score)
    ttl,           \* Redis: user -> the key has an expiry armed
    lapsed,        \* Redis: user -> the 60 s of the armed expiry have passed
    since_evict,   \* history: user -> inserts since the key's last eviction (-1: none yet)
    dispatches,    \* the POSTs attempted on the alert sink, in order
    pc,            \* slot -> position of the handler running in it
    evt,           \* slot -> the request's event
    attempts,      \* slot -> failed attempts of the running commit_with_retry
    stored,        \* slot -> the request's event row has been committed
    count,         \* slot -> local variable count
    earliest,      \* slot -> local variable earliest_ts / window_start
    outcome,       \* slot -> how the webhook POST ended ("" before it)
    response,      \* slot -> "" | "ingested" | the exception that left the handler (a 500)
    nresponses,    \* responses delivered: [ingested |-> n, error |-> m]
    overlapped,    \* history: two handlers have been in flight at once
    sv,            \* SpecSeverity only: [thresh, count, out]
    pw             \* SpecPrune only: [win, cutoff, once, twice, n]

vars == <<WEBHOOK_URL, has_default, TZ, events, anomalies, window, ttl, lapsed,
          since_evict, dispatches, pc, evt, attempts, stored, count, earliest,
          outcome, response, nresponses, overlapped, sv, pw>>

\* What start-up read from config.yaml, and the environment of the process.
config == <<WEBHOOK_URL, has_default, TZ>>

\* The bookkeeping of the window keys' expiry.
keymeta == <<lapsed, since_evict>>

shared == <<events, anomalies, window, ttl, keymeta, dispatches>>

\* The state of the specifications of single functions.
pure == <<sv, pw>>

(* ------------------------------------------------------ pure computations *)

\* THRESHOLDS.get(evt.signal_type, THRESHOLDS["default"])
Threshold(signal_type) ==
    IF signal_type \in DOMAIN THRESHOLDS
    THEN THRESHOLDS[signal_type]
    ELSE THRESHOLDS["default"]

\* Mutant of Breach: the comparison written >=.
BreachAtThreshold(c, thresh) == c >= thresh

\* if count > thresh
Breach(c, thresh) == c > thresh

\* Mutant of Severity: the comparison written >=.
SeverityInclusive(c, thresh) ==
    IF 2 * c >= 3 * thresh THEN "critical" ELSE "warning"

\* "critical" if count > thresh * 1.5 else "warning".  thresh * 1.5 is exact
\* in binary floating point for the integers in reach, so the comparison is
\* the integer comparison 2 * count > 3 * thresh.
Severity(c, thresh) ==
    IF 2 * c > 3 * thresh THEN "critical" ELSE "warning"

\* Lines 129-131 as one function: what an evaluation of (count, thresh) yields.
Evaluate(c, thresh) ==
    IF Breach(c, thresh) THEN Severity(c, thresh) ELSE "none"

\* evt.timestamp is a datetime.  The model writes it as two fields of the
\* event: timestamp, the seconds its calendar reading (date and time of day,
\* as written in the request) lies after a fixed reading, and tzinfo, "utc"
\* when the request gives the reading with UTC offset +00:00 and "naive" when
\* it gives no offset.
TzInfos == {"naive", "utc"}

\* The server's local time zone:
\*   "fixed"   UTC offset 0, no change;
\*   "west"    4 h behind UTC, no change;
\*   "east"    9 h ahead of UTC, no change;
\*   "spring"  UTC offset 0 until the clocks go forward by Shift: the
\*             readings of the Shift seconds before Transition do not occur;
\*   "fall"    UTC offset 0 until the clocks go back by Shift: the readings
\*             of the Shift seconds before Transition occur twice.
Zones == {"fixed", "west", "east", "spring", "fall"}

\* One hour, the size of the change of offset.
Shift == 3600

\* The first reading at which the new offset is in force.
Transition == 36000

\* The seconds local time is ahead of UTC in zone tz, before any change.
UtcOffset(tz) ==
    IF tz = "west" THEN 0 - 4 * Shift
    ELSE IF tz = "east" THEN 9 * Shift
    ELSE 0

\* datetime.timestamp() of a datetime without tzinfo, in zone tz: the POSIX
\* time of the reading taken as local time.  A reading that does not occur or
\* occurs twice is converted with the offset before the change (fold = 0).
\* POSIX times are written relative to the one of reading 0 in UTC.
LocalToPosix(tz, dt) ==
    IF tz = "spring" /\ dt >= Transition THEN dt - Shift
    ELSE IF tz = "fall" /\ dt >= Transition THEN dt + Shift
    ELSE dt - UtcOffset(tz)

\* datetime.timestamp(): a datetime with tzinfo is converted with its own
\* offset, whatever the zone of the server; one without, as local time.
PosixTimestamp(tz, tzinfo, dt) ==
    IF tzinfo = "utc" THEN dt ELSE LocalToPosix(tz, dt)

\* datetime.fromtimestamp(ts): the local reading, in zone tz, of a POSIX
\* time; the result has no tzinfo.
FromTimestamp(tz, ts) ==
    IF tz = "spring" /\ ts >= Transition - Shift THEN ts + Shift
    ELSE IF tz = "fall" /\ ts >= Transition THEN ts - Shift
    ELSE ts + UtcOffset(tz)

\* now_ts = evt.timestamp.timestamp()
NowTs(e) == PosixTimestamp(TZ, e.tzinfo, e.timestamp)

\* cutoff = (evt.timestamp - timedelta(seconds=5)).timestamp(): the 5 s are
\* taken off the datetime, and the result is converted.
Cutoff(e) == PosixTimestamp(TZ, e.tzinfo, e.timestamp - HORIZON)

\* Mutant of Key: one key for every user.
KeyShared(user_id) == "u1"

\* key = f"window:{evt.user_id}": the key is the user, one window per user.
Key(user_id) == user_id

\* r.zadd(key, {now_ts: now_ts}): the member is the score, so adding a time
\* stamp that is already a member changes nothing.
ZAdd(set, ts) == set \cup {ts}

\* Mutant of ZRemRangeByScore: drops only the lowest member of the range.
ZRemLowestInRange(set, min, max) ==
    LET hit == {t \in set : min <= t /\ t <= max}
    IN  IF hit = {}
        THEN set
        ELSE set \ {CHOOSE t \in hit : \A u \in hit : t <= u}

\* r.zremrangebyscore(key, min, max): drops the members with min <= score <= max.
ZRemRangeByScore(set, min, max) == {t \in set : ~(min <= t /\ t <= max)}

\* r.zcard(key)
ZCard(set) == Cardinality(set)

\* r.zrange(key, 0, 0): the member with the lowest score, as a list.
ZRange00(set) ==
    IF set = {} THEN <<>>
    ELSE <<CHOOSE t \in set : \A u \in set : t <= u>>

\* f"{evt.signal_type}:{thresh}"
Rule(signal_type, thresh) == <<signal_type, thresh>>

\* Mutant of ShouldDispatch: the severity test left out.
ShouldDispatchAny(severity, url) == url

\* if severity == "critical" and WEBHOOK_URL
ShouldDispatch(severity, url) == severity = "critical" /\ url

\* requests.post raises on a timeout and on a network error; a non-success
\* status is an ordinary return value (raise_for_status is not called).
PostRaises(o) == o \in {"timeout", "network_error"}

\* Mutant of WebhookPropagates: the POST outside any try/except.
WebhookPropagatesAll(o) == TRUE

\* try: requests.post(...) except Exception: logger.error(...): whether the
\* exception of the POST leaves the handler.
WebhookPropagates(o) == FALSE

\* Mutant of RetryStops: the stop one attempt late.
RetryStopsLate(made) == made > MaxAttempts

\* tenacity: after a failed attempt, retry unless `made` attempts reach the stop.
RetryStops(made) == made >= MaxAttempts

(* ------------------------------------------------------------------ Init *)

\* required_keys = ["database", "redis", "thresholds"]
RequiredKeys == {"database", "redis", "thresholds"}

\* The keys of the config.yaml the service is started with.
ConfigKeys == {"database", "redis", "thresholds", "webhook"}

\* Lines 31-34: start-up goes on iff every required key is in cfg.  The keys
\* of cfg["thresholds"] are not looked at.
StartupAccepts(keys, default_present) == RequiredKeys \subseteq keys

\* The state when start-up has passed, whatever the configuration was.
InitRuntime ==
    /\ StartupAccepts(ConfigKeys, has_default)
    /\ TZ \in Zones
    /\ events = <<>>
    /\ anomalies = <<>>
    /\ window = [u \in Users |-> {}]
    /\ ttl = [u \in Users |-> FALSE]
    /\ lapsed = [u \in Users |-> FALSE]
    /\ since_evict = [u \in Users |-> -1]
    /\ dispatches = <<>>
    /\ pc = [s \in Slots |-> "idle"]
    /\ evt = [s \in Slots |-> NoEvent]
    /\ attempts = [s \in Slots |-> 0]
    /\ stored = [s \in Slots |-> FALSE]
    /\ count = [s \in Slots |-> 0]
    /\ earliest = [s \in Slots |-> 0]
    /\ outcome = [s \in Slots |-> ""]
    /\ response = [s \in Slots |-> ""]
    /\ nresponses = [ingested |-> 0, error |-> 0]
    /\ overlapped = FALSE

NoSeverity == [thresh |-> 0, count |-> 0, out |-> "unset"]

NoPrune == [win |-> {}, cutoff |-> 0, once |-> {}, twice |-> {}, n |-> 0]

\* Started with a configuration that has a "default" threshold.
InitService ==
    /\ WEBHOOK_URL \in BOOLEAN
    /\ has_default = TRUE
    /\ InitRuntime

\* The zones of the runs with concurrent handlers.  Every time stamp of
\* these runs is without tzinfo and at or after Transition, so "fall", "west"
\* and "east" would repeat "fixed" with all POSIX times moved by one amount.
MainZones == {"fixed", "spring"}

Init ==
    /\ InitService
    /\ TZ \in MainZones
    /\ sv = NoSeverity
    /\ pw = NoPrune

\* The start of the runs of ingests one after the other: every zone.
InitAllZones ==
    /\ InitService
    /\ sv = NoSeverity
    /\ pw = NoPrune

(* --------------------------------------------------------------- actions *)

InFlight == Cardinality({s \in Slots : pc[s] # "idle"})

Started == nresponses.ingested + nresponses.error + InFlight

\* Mutant of FirstStep: the window is touched before the event is written.
FirstStepWindow == "zadd"

\* The first statement of the handler that leaves it: lines 112-114 write
\* the event; the window's key is built only at line 117.
FirstStep == "commit_event"

\* The handler in slot s takes the request (u, t, ts):
\* db_evt = Event(**evt.dict()); db.add(db_evt).
Begin(s, u, t, ts, tzinfo) ==
    /\ pc[s] = "idle"
    /\ \A q \in Slots : q < s => pc[q] # "idle"
    /\ evt' = [evt EXCEPT ![s] =
                 [user_id |-> u, signal_type |-> t, timestamp |-> ts,
                  tzinfo |-> tzinfo]]
    /\ pc' = [pc EXCEPT ![s] = FirstStep]
    /\ attempts' = [attempts EXCEPT ![s] = 0]
    /\ overlapped' = (overlapped \/ \E q \in Slots \ {s} : pc[q] # "idle")
    /\ UNCHANGED <<config, shared, stored, count, earliest, outcome,
                   response, nresponses, pure>>

\* POST /event arrives.  The slots are interchangeable, so a request takes
\* the lowest free one.
Start(s) ==
    /\ Started < MaxIngests
    /\ \E u \in SingleUser, t \in SignalTypes, ts \in Timestamps :
          Begin(s, u, t, ts, "naive")

\* commit_with_retry(db), first call: one attempt of db.commit().  The
\* attempt counter lives in the call and is gone when it returns.
CommitEvent(s) ==
    /\ pc[s] = "commit_event"
    /\ \E ok \in BOOLEAN :
         IF ok
         THEN /\ events' = Append(events, evt[s])
              /\ stored' = [stored EXCEPT ![s] = TRUE]
              /\ attempts' = [attempts EXCEPT ![s] = 0]
              /\ pc' = [pc EXCEPT ![s] = "zadd"]
              /\ UNCHANGED response
         ELSE /\ UNCHANGED <<events, stored>>
              /\ attempts' = [attempts EXCEPT ![s] = @ + 1]
              /\ IF RetryStops(attempts[s] + 1)
                 THEN /\ pc' = [pc EXCEPT ![s] = "done"]
                      /\ response' = [response EXCEPT ![s] = "RetryError"]
                 ELSE UNCHANGED <<pc, response>>
    /\ UNCHANGED <<config, anomalies, window, ttl, keymeta, dispatches, evt,
                   count, earliest, outcome, nresponses, overlapped, pure>>

\* r.zadd(key, {now_ts: now_ts})
Zadd(s) ==
    /\ pc[s] = "zadd"
    /\ window' = [window EXCEPT ![Key(evt[s].user_id)] = ZAdd(@, NowTs(evt[s]))]
    /\ since_evict' = [since_evict EXCEPT ![Key(evt[s].user_id)] =
                         IF @ >= 0 THEN @ + 1 ELSE @]
    /\ pc' = [pc EXCEPT ![s] = "expire"]
    /\ UNCHANGED <<config, events, anomalies, ttl, lapsed, dispatches, evt,
                   attempts, stored, count, earliest, outcome, response,
                   nresponses, overlapped, pure>>

\* r.expire(key, 60): arms the expiry of an existing key.
Expire(s) ==
    /\ pc[s] = "expire"
    /\ ttl' = [ttl EXCEPT ![Key(evt[s].user_id)] = (window[Key(evt[s].user_id)] # {})]
    /\ lapsed' = [lapsed EXCEPT ![Key(evt[s].user_id)] = FALSE]
    /\ pc' = [pc EXCEPT ![s] = "zremrangebyscore"]
    /\ UNCHANGED <<config, events, anomalies, window, since_evict, dispatches, evt,
                   attempts, stored, count, earliest, outcome, response,
                   nresponses, overlapped, pure>>

\* r.zremrangebyscore(key, 0, cutoff).  Redis deletes a sorted set that
\* becomes empty, and its expiry with it.
Zremrangebyscore(s) ==
    /\ pc[s] = "zremrangebyscore"
    /\ LET u == Key(evt[s].user_id)
           w == ZRemRangeByScore(window[u], 0, Cutoff(evt[s]))
       IN  /\ window' = [window EXCEPT ![u] = w]
           /\ ttl' = [ttl EXCEPT ![u] = @ /\ w # {}]
           /\ lapsed' = [lapsed EXCEPT ![u] = @ /\ w # {}]
    /\ pc' = [pc EXCEPT ![s] = "zcard"]
    /\ UNCHANGED <<config, events, anomalies, since_evict, dispatches, evt, attempts,
                   stored, count, earliest, outcome, response, nresponses, overlapped, pure>>

\* count = r.zcard(key); thresh = THRESHOLDS.get(...); if count > thresh.
\* The default argument THRESHOLDS["default"] is evaluated before .get is
\* called: with no "default" key it raises KeyError for every signal type.
Zcard(s) ==
    /\ pc[s] = "zcard"
    /\ LET c == ZCard(window[Key(evt[s].user_id)])
       IN  /\ count' = [count EXCEPT ![s] = c]
           /\ IF ~has_default
              THEN /\ pc' = [pc EXCEPT ![s] = "done"]
                   /\ response' = [response EXCEPT ![s] = "KeyError"]
              ELSE IF Breach(c, Threshold(evt[s].signal_type))
              THEN /\ pc' = [pc EXCEPT ![s] = "zrange"]
                   /\ UNCHANGED response
              ELSE /\ pc' = [pc EXCEPT ![s] = "done"]
                   /\ response' = [response EXCEPT ![s] = "ingested"]
    /\ UNCHANGED <<config, shared, evt, attempts, stored, earliest,
                   outcome, nresponses, overlapped, pure>>

\* earliest_ts = float(r.zrange(key, 0, 0)[0]); the Anomaly is built and
\* db.add(anomaly).  An empty reply makes [0] raise IndexError.
Zrange(s) ==
    /\ pc[s] = "zrange"
    /\ LET reply == ZRange00(window[Key(evt[s].user_id)])
       IN  IF reply = <<>>
           THEN /\ pc' = [pc EXCEPT ![s] = "done"]
                /\ response' = [response EXCEPT ![s] = "IndexError"]
                /\ UNCHANGED earliest
           ELSE /\ earliest' = [earliest EXCEPT ![s] = reply[1]]
                /\ pc' = [pc EXCEPT ![s] = "commit_anomaly"]
                /\ UNCHANGED response
    /\ UNCHANGED <<config, shared, evt, attempts, stored, count,
                   outcome, nresponses, overlapped, pure>>

\* The Anomaly row of the handler in slot s.
AnomalyOf(s) ==
    LET thresh == Threshold(evt[s].signal_type)
    IN  [user_id      |-> evt[s].user_id,
         detected_at  |-> evt[s].timestamp,
         count        |-> count[s],
         window_start |-> FromTimestamp(TZ, earliest[s]),
         severity     |-> Severity(count[s], thresh),
         rule         |-> Rule(evt[s].signal_type, thresh)]

\* Mutant of AddAnomaly: no second row for a window that already has one.
AddAnomalyOnce(rows, row) ==
    IF \E i \in DOMAIN rows : /\ rows[i].user_id = row.user_id
                              /\ rows[i].window_start = row.window_start
    THEN rows
    ELSE Append(rows, row)

\* db.add(anomaly) and the commit: an INSERT of a row with a fresh id; no
\* row of the table is looked up, changed or deleted.
AddAnomaly(rows, row) == Append(rows, row)

\* commit_with_retry(db), second call: one attempt of db.commit().
CommitAnomaly(s) ==
    /\ pc[s] = "commit_anomaly"
    /\ \E ok \in BOOLEAN :
         IF ok
         THEN /\ anomalies' = AddAnomaly(anomalies, AnomalyOf(s))
              /\ attempts' = [attempts EXCEPT ![s] = 0]
              /\ IF ShouldDispatch(AnomalyOf(s).severity, WEBHOOK_URL)
                 THEN /\ pc' = [pc EXCEPT ![s] = "webhook"]
                      /\ UNCHANGED response
                 ELSE /\ pc' = [pc EXCEPT ![s] = "done"]
                      /\ response' = [response EXCEPT ![s] = "ingested"]
         ELSE /\ UNCHANGED anomalies
              /\ attempts' = [attempts EXCEPT ![s] = @ + 1]
              /\ IF RetryStops(attempts[s] + 1)
                 THEN /\ pc' = [pc EXCEPT ![s] = "done"]
                      /\ response' = [response EXCEPT ![s] = "RetryError"]
                 ELSE UNCHANGED <<pc, response>>
    /\ UNCHANGED <<config, events, window, ttl, keymeta, dispatches, evt, stored,
                   count, earliest, outcome, nresponses, overlapped, pure>>

\* The JSON body of the alert.
AlertOf(s) ==
    [user_id     |-> evt[s].user_id,
     signal_type |-> evt[s].signal_type,
     count       |-> count[s],
     severity    |-> AnomalyOf(s).severity,
     detected_at |-> evt[s].timestamp]

\* requests.post(WEBHOOK_URL, json=..., timeout=1) is called: the request
\* leaves for the sink and the handler's thread blocks in the call.
WebhookSend(s) ==
    /\ pc[s] = "webhook"
    /\ dispatches' = Append(dispatches, AlertOf(s))
    /\ pc' = [pc EXCEPT ![s] = "webhook_wait"]
    /\ UNCHANGED <<config, events, anomalies, window, ttl, keymeta, evt, attempts,
                   stored, count, earliest, outcome, response, nresponses, overlapped, pure>>

\* The POST ends: it returns a response (of any status) or raises, and the
\* except clause logs what it raised.
WebhookEnd(s) ==
    /\ pc[s] = "webhook_wait"
    /\ \E o \in WebhookOutcomes :
         /\ outcome' = [outcome EXCEPT ![s] = o]
         /\ response' = [response EXCEPT ![s] =
               IF PostRaises(o) /\ WebhookPropagates(o)
               THEN "RequestException" ELSE "ingested"]
    /\ pc' = [pc EXCEPT ![s] = "done"]
    /\ UNCHANGED <<config, shared, evt, attempts, stored, count,
                   earliest, nresponses, overlapped, pure>>

\* return {"status": "ingested"}, or the 500 of the exception that left the
\* handler; get_db closes the session and the worker is free again.
Respond(s) ==
    /\ pc[s] = "done"
    /\ nresponses' = [nresponses EXCEPT
          ![IF response[s] = "ingested" THEN "ingested" ELSE "error"] = @ + 1]
    /\ pc' = [pc EXCEPT ![s] = "idle"]
    /\ evt' = [evt EXCEPT ![s] = NoEvent]
    /\ attempts' = [attempts EXCEPT ![s] = 0]
    /\ stored' = [stored EXCEPT ![s] = FALSE]
    /\ count' = [count EXCEPT ![s] = 0]
    /\ earliest' = [earliest EXCEPT ![s] = 0]
    /\ outcome' = [outcome EXCEPT ![s] = ""]
    /\ response' = [response EXCEPT ![s] = ""]
    /\ UNCHANGED <<config, shared, overlapped, pure>>

Next ==
    \E s \in Slots :
        \/ Start(s)
        \/ CommitEvent(s)
        \/ Zadd(s)
        \/ Expire(s)
        \/ Zremrangebyscore(s)
        \/ Zcard(s)
        \/ Zrange(s)
        \/ CommitAnomaly(s)
        \/ WebhookSend(s)
        \/ WebhookEnd(s)
        \/ Respond(s)

Spec == Init /\ [][Next]_vars

(* ------------------------------------------ the severity evaluation alone *)

\* Every pair (thresh, count) of the bounded ranges is a start state.
InitSeverity ==
    /\ InitService
    /\ pw = NoPrune
    /\ sv \in [thresh : 1..MaxThresh, count : 0..MaxCount, out : {"unset"}]

\* Lines 129-131 applied to the pair.
EvaluateStep ==
    /\ sv.out = "unset"
    /\ sv' = [sv EXCEPT !.out = Evaluate(sv.count, sv.thresh)]
    /\ UNCHANGED <<config, shared, pc, evt, attempts, stored, count,
                   earliest, outcome, response, nresponses, overlapped, pw>>

NextSeverity == EvaluateStep

SpecSeverity == InitSeverity /\ [][NextSeverity]_vars

(* ------------------------------- a configuration without "default" *)

\* config.yaml has database, redis and thresholds, and thresholds has no
\* "default" key: the check of lines 31-34 passes and the module loads.
InitNoDefault ==
    /\ WEBHOOK_URL \in BOOLEAN
    /\ has_default = FALSE
    /\ InitRuntime
    /\ sv = NoSeverity
    /\ pw = NoPrune

\* The steps a handler takes before line 128 raises, and its 500.
NextNoDefault ==
    \E s \in Slots :
        \/ Start(s)
        \/ CommitEvent(s)
        \/ Zadd(s)
        \/ Expire(s)
        \/ Zremrangebyscore(s)
        \/ Zcard(s)
        \/ Respond(s)

SpecNoDefault == InitNoDefault /\ [][NextNoDefault]_vars

(* --------------------------------------------- the expiry of idle keys *)

\* No handler is in flight: every accepted ingest has been answered.
Quiescent == \A s \in Slots : pc[s] = "idle"

\* POST /event arrives while no other request is being handled; its time
\* stamp is written with or without UTC offset.
StartAlone(s) ==
    /\ Quiescent
    /\ Started < MaxIngests
    /\ \E u \in SingleUser, t \in SignalTypes, ts \in Timestamps,
          tzinfo \in TzInfos :
          Begin(s, u, t, ts, tzinfo)

\* What Redis leaves of a key whose expiry has fired: nothing.
Evicted(members) == {}

\* The service is idle and the wall clock reaches the deadline that the last
\* r.expire(key, 60) set for u's key.  (The members are the events' own
\* time stamps, which the wall clock does not bound.)
Idle(u) ==
    /\ Quiescent
    /\ ttl[u]
    /\ ~lapsed[u]
    /\ lapsed' = [lapsed EXCEPT ![u] = TRUE]
    /\ UNCHANGED <<config, events, anomalies, window, ttl, since_evict,
                   dispatches, pc, evt, attempts, stored, count, earliest,
                   outcome, response, nresponses, overlapped, pure>>

\* Redis removes u's key: its deadline was reached and no r.expire has
\* moved it since.  Redis does this on its own, at any moment from then on.
Evict(u) ==
    /\ lapsed[u]
    /\ window' = [window EXCEPT ![u] = Evicted(@)]
    /\ ttl' = [ttl EXCEPT ![u] = FALSE]
    /\ lapsed' = [lapsed EXCEPT ![u] = FALSE]
    /\ since_evict' = [since_evict EXCEPT ![u] = 0]
    /\ UNCHANGED <<config, events, anomalies, dispatches, pc, evt, attempts,
                   stored, count, earliest, outcome, response, nresponses,
                   overlapped, pure>>

NextEvict ==
    \/ \E s \in Slots :
          \/ StartAlone(s)
          \/ CommitEvent(s)
          \/ Zadd(s)
          \/ Expire(s)
          \/ Zremrangebyscore(s)
          \/ Zcard(s)
          \/ Zrange(s)
          \/ CommitAnomaly(s)
          \/ WebhookSend(s)
          \/ WebhookEnd(s)
          \/ Respond(s)
    \/ \E u \in Users :
          \/ Idle(u)
          \/ Evict(u)

\* Ingests one after the other, and Redis expiring idle keys.
SpecEvict == InitAllZones /\ [][NextEvict]_vars

(* ------------------------------ events more than a horizon apart *)

\* The time stamps a spaced run can start with, before and after Transition
\* (in zone "spring" the first two lie in the hour that is skipped),
\* and the distances between consecutive events: more than HORIZON seconds.
FirstTimestamps == {35998, 35999, 36002}

Gaps == {HORIZON + 1, HORIZON + 2}

\* The time stamps the next event of the run can carry: more than HORIZON
\* after the event before it.
SpacedTimestamps ==
    IF events = <<>>
    THEN FirstTimestamps
    ELSE {events[Len(events)].timestamp + g : g \in Gaps}

\* The events of a run are all written with offset or all without, so that
\* the distance of two readings is the time between them.
SpacedTzInfos ==
    IF events = <<>> THEN TzInfos ELSE {events[Len(events)].tzinfo}

\* POST /event arrives, after the answer to the request before it.
StartSpaced(s) ==
    /\ Quiescent
    /\ Started < MaxSpaced
    /\ \E u \in SingleUser, t \in SignalTypes, ts \in SpacedTimestamps,
          tzinfo \in SpacedTzInfos :
          Begin(s, u, t, ts, tzinfo)

NextSpaced ==
    \E s \in Slots :
        \/ StartSpaced(s)
        \/ CommitEvent(s)
        \/ Zadd(s)
        \/ Expire(s)
        \/ Zremrangebyscore(s)
        \/ Zcard(s)
        \/ Zrange(s)
        \/ CommitAnomaly(s)
        \/ WebhookSend(s)
        \/ WebhookEnd(s)
        \/ Respond(s)

SpecSpaced == InitAllZones /\ [][NextSpaced]_vars

(* ---------------------------------------------------- the prune alone *)

\* Lines 123-124 applied to a window: r.zremrangebyscore(key, 0, cutoff).
Prune(members, cutoff) == ZRemRangeByScore(members, 0, cutoff)

\* Every window over the scores -1..MaxScore, with every cutoff of
\* -HORIZON..MaxScore, is a start state.
InitPrune ==
    /\ InitService
    /\ sv = NoSeverity
    /\ pw \in [win : SUBSET (-1..MaxScore), cutoff : (0 - HORIZON)..MaxScore,
                once : {{}}, twice : {{}}, n : {0}]

\* The prune is applied to the window as it is, and again to its result.
PruneStep ==
    /\ pw.n < 2
    /\ pw' = IF pw.n = 0
             THEN [pw EXCEPT !.once = Prune(pw.win, pw.cutoff), !.n = 1]
             ELSE [pw EXCEPT !.twice = Prune(pw.once, pw.cutoff), !.n = 2]
    /\ UNCHANGED <<config, shared, pc, evt, attempts, stored, count,
                   earliest, outcome, response, nresponses, overlapped, sv>>

NextPrune == PruneStep

SpecPrune == InitPrune /\ [][NextPrune]_vars

(* ------------------------------------------------ ingests of two users *)

\* The requests of the runs with two users: one signal type, two time
\* stamps inside one horizon.
TwoUserTypes == {"neutral"}

TwoUserTimestamps == {36007, 36008}

\* POST /event arrives, for either user.
StartAnyUser(s) ==
    /\ Started < MaxIngests
    /\ \E u \in Users, t \in TwoUserTypes, ts \in TwoUserTimestamps :
          Begin(s, u, t, ts, "naive")

NextUsers ==
    \E s \in Slots :
        \/ StartAnyUser(s)
        \/ CommitEvent(s)
        \/ Zadd(s)
        \/ Expire(s)
        \/ Zremrangebyscore(s)
        \/ Zcard(s)
        \/ Zrange(s)
        \/ CommitAnomaly(s)
        \/ WebhookSend(s)
        \/ WebhookEnd(s)
        \/ Respond(s)

\* Concurrent ingests of two users.
SpecUsers == Init /\ [][NextUsers]_vars

(* ------------------------------------------------------- helper notions *)

Range(seq) == {seq[i] : i \in DOMAIN seq}

\* The rows of table "events" of user u.
EventRows(u) == {i \in DOMAIN events : events[i].user_id = u}

\* All time stamps of u's event rows lie inside one horizon.
WithinOneHorizon(u) ==
    \A i, j \in EventRows(u) :
        events[i].timestamp - events[j].timestamp < HORIZON

DistinctTimestamps(u) ==
    \A i, j \in EventRows(u) :
        i # j => events[i].timestamp # events[j].timestamp

\* The rows of table "anomalies" of user u.
AnomalyRows(u) == {i \in DOMAIN anomalies : anomalies[i].user_id = u}

(* ---------------------------------------------------------------- claims *)

\* C1 (as stated; the code violates it): in a run of ingests one after the
\* other, when a handler whose cutoff c is the latest so far reads count
\* after its prune, count is the number of time stamps recorded so far for
\* the user that are >= c, each recorded time stamp counted once.
C1_CountAfterPrune ==
    [][\A s \in Slots :
         ( /\ pc[s] = "zcard"
           /\ pc'[s] # "zcard"
           /\ ~overlapped
           /\ \A i \in EventRows(evt[s].user_id) :
                events[i].timestamp <= evt[s].timestamp )
         => count'[s] =
              Cardinality({i \in EventRows(evt[s].user_id) :
                             events[i].timestamp >= evt[s].timestamp - HORIZON})
      ]_vars

\* C2 (as stated; the code violates it): once N ingests of one user, with
\* time stamps inside one horizon and N <= threshold, have all completed, the
\* user's window holds N entries, whatever the interleaving was.
C2_NoLostUpdate ==
    \A u \in Users :
        ( /\ Quiescent
          /\ nresponses.error = 0
          /\ WithinOneHorizon(u)
          /\ \A i \in EventRows(u) :
               Cardinality(EventRows(u)) <= Threshold(events[i].signal_type) )
        => ZCard(window[u]) = Cardinality(EventRows(u))

\* C3 (as stated; the code violates it): once N > threshold ingests of one
\* user and one signal type, with distinct time stamps inside one horizon,
\* have all completed, the anomalies stored are those of a serialized run:
\* the k-th ingest sees count k, so N - threshold anomalies are stored.
C3_DeterministicEmission ==
    \A u \in Users : \A ty \in SignalTypes :
        ( /\ Quiescent
          /\ nresponses.error = 0
          /\ WithinOneHorizon(u)
          /\ DistinctTimestamps(u)
          /\ \A i \in EventRows(u) : events[i].signal_type = ty
          /\ Cardinality(EventRows(u)) > Threshold(ty) )
        => Cardinality(AnomalyRows(u)) = Cardinality(EventRows(u)) - Threshold(ty)

\* The threshold the handler in slot s compares with.
ThresholdOf(s) == Threshold(evt[s].signal_type)

\* The handler in slot s has returned {"status": "ingested"}.
Ingested(s) == pc[s] = "done" /\ stored[s] /\ response[s] = "ingested"

\* C4 (as stated; refuted): an anomaly is created iff count > threshold.  No
\* stored anomaly has count <= its rule's threshold and each has severity
\* warning or critical; and an ingest that has stored its event and read the
\* count has, when it ends, stored its anomaly iff its count > threshold.
C4_AnomalyIffAboveThreshold ==
    /\ \A i \in DOMAIN anomalies :
         /\ anomalies[i].count > anomalies[i].rule[2]
         /\ anomalies[i].severity \in {"warning", "critical"}
    /\ \A s \in Slots :
         pc[s] = "done" /\ stored[s]
              => (count[s] > ThresholdOf(s) <=> AnomalyOf(s) \in Range(anomalies))

\* C4 (amended): the comparison is strict.  An ingest takes the anomaly path
\* iff the count it reads is > threshold, and with count <= threshold it is
\* acknowledged without a record; a record is stored only by an ingest with
\* count > threshold, with that count and severity warning or critical; an
\* ingest with count > threshold that is acknowledged has stored its record;
\* and one that ends in an error after the comparison (the anomaly write
\* failed 3 times, or the earliest-timestamp read found the window empty)
\* has stored none.  Under a configuration without "default" threshold the
\* comparison is not reached (KeyError at line 128) and no record is stored.
C4_StrictThreshold ==
    [][/\ \A s \in Slots :
             pc[s] = "zcard" /\ pc'[s] # "zcard" /\ has_default
             => IF count'[s] > ThresholdOf(s)
                THEN pc'[s] = "zrange"
                ELSE /\ pc'[s] = "done"
                     /\ response'[s] = "ingested"
                     /\ anomalies' = anomalies
       /\ anomalies' # anomalies
             => \E s \in Slots :
                   /\ pc[s] = "commit_anomaly" /\ pc'[s] \in {"webhook", "done"}
                   /\ count[s] > ThresholdOf(s)
                   /\ anomalies' = Append(anomalies, AnomalyOf(s))
                   /\ AnomalyOf(s).count = count[s]
                   /\ AnomalyOf(s).severity \in {"warning", "critical"}
       /\ \A s \in Slots :
             pc[s] = "commit_anomaly" /\ pc'[s] \in {"webhook", "done"}
                                     /\ response'[s] # "RetryError"
             => anomalies' = Append(anomalies, AnomalyOf(s))
       /\ \A s \in Slots :
             pc[s] # "done" /\ pc'[s] = "done" /\ stored[s]
             => /\ response'[s] = "ingested" /\ count'[s] > ThresholdOf(s)
                     => pc[s] \in {"commit_anomaly", "webhook_wait"}
                /\ response'[s] # "ingested" /\ has_default
                     => /\ response'[s] \in {"RetryError", "IndexError"}
                        /\ pc[s] \in {"zrange", "commit_anomaly"}
                        /\ count[s] > ThresholdOf(s)
                        /\ anomalies' = anomalies
                /\ ~has_default
                     => /\ response'[s] = "KeyError"
                        /\ pc[s] = "zcard"
                        /\ anomalies' = anomalies
      ]_vars

\* C4 witness: an acknowledged ingest that read count = threshold (and stored
\* no anomaly) beside a stored anomaly with count = threshold + 1, and an
\* ingest that read count = threshold + 1 and ended in an error.
C4_Witness ==
    /\ \E s \in Slots : Ingested(s) /\ count[s] = ThresholdOf(s)
    /\ \E i \in DOMAIN anomalies : anomalies[i].count = anomalies[i].rule[2] + 1
    /\ \E s \in Slots :
          /\ pc[s] = "done" /\ stored[s]
          /\ response[s] \in {"RetryError", "IndexError"}
          /\ count[s] = ThresholdOf(s) + 1

\* C5 (as stated; refuted): count = ceil(threshold * 1.5) is critical and the
\* count one below it is not.
C5_CeilIsFirstCritical ==
    sv.out # "unset" =>
        /\ sv.count = (3 * sv.thresh + 1) \div 2 => sv.out = "critical"
        /\ sv.count = (3 * sv.thresh + 1) \div 2 - 1 => sv.out # "critical"

\* C5 (amended): for every threshold >= 1 an evaluation is critical iff
\* count >= floor(threshold * 1.5) + 1, so that count is the first critical
\* one (it is ceil(threshold * 1.5) only for an odd threshold).
C5_FirstCritical ==
    sv.out # "unset" =>
        (sv.out = "critical" <=> sv.count >= (3 * sv.thresh) \div 2 + 1)

\* C5 witness: an even threshold evaluated at floor(threshold * 1.5) + 1.
C5_Witness ==
    /\ sv.out = "critical"
    /\ sv.thresh % 2 = 0
    /\ sv.count = (3 * sv.thresh) \div 2 + 1

\* C6 (as stated; the code violates it): a handler whose event row is stored
\* returns "ingested", whatever happens to the anomaly write.
C6_AlwaysIngested ==
    \A s \in Slots : pc[s] = "done" /\ stored[s] => response[s] = "ingested"

\* The step is an attempt of the commit the handler in slot s is in.
CommitAttempt(s) ==
    /\ pc[s] \in {"commit_event", "commit_anomaly"}
    /\ pc'[s] # pc[s] \/ attempts'[s] # attempts[s]

\* The attempt wrote its row.
Written(s) ==
    IF pc[s] = "commit_event" THEN events' # events ELSE anomalies' # anomalies

\* C7: a write is attempted at most 3 times; the first attempt that succeeds
\* ends the retrying; a failed attempt before the third is retried and not
\* surfaced; the third failed attempt ends the handler with the retry error.
C7_BoundedRetry ==
    [][\A s \in Slots :
         CommitAttempt(s) =>
           /\ attempts[s] < 3
           /\ IF Written(s)
              THEN pc'[s] # pc[s] /\ response'[s] # "RetryError"
              ELSE /\ attempts'[s] = attempts[s] + 1
                   /\ UNCHANGED <<events, anomalies>>
                   /\ IF attempts'[s] < 3
                      THEN pc'[s] = pc[s] /\ response'[s] = ""
                      ELSE pc'[s] = "done" /\ response'[s] = "RetryError"
      ]_vars

\* C7 witness: the event write has failed 3 times and the request has failed.
C7_Witness ==
    \E s \in Slots :
        pc[s] = "done" /\ ~stored[s] /\ response[s] = "RetryError" /\ attempts[s] = 3

\* C8: however the POST ends (response of any status, timeout, network
\* error), the handler goes on to return "ingested", and neither the POST nor
\* its end changes the stored events and anomalies.
C8_DispatchFailureIsolated ==
    [][\A s \in Slots :
         /\ pc[s] = "webhook" /\ pc'[s] # "webhook"
              => /\ pc'[s] = "webhook_wait"
                 /\ response'[s] = ""
                 /\ UNCHANGED <<events, anomalies>>
         /\ pc[s] = "webhook_wait" /\ pc'[s] # "webhook_wait"
              => /\ pc'[s] = "done"
                 /\ response'[s] = "ingested"
                 /\ UNCHANGED <<events, anomalies>>
      ]_vars

\* C8 witness: a handler whose POST timed out, met a network error or got a
\* non-success status, about to return.
C8_Witness ==
    \E s \in Slots :
        /\ pc[s] = "done"
        /\ outcome[s] \in {"timeout", "network_error", "non_success"}
        /\ AnomalyOf(s) \in Range(anomalies)

\* C9 (as stated; the code violates it): while a handler's POST to the alert
\* sink is in flight, the handler's response can be returned.
C9_ResponseDoesNotWait ==
    \A s \in Slots : pc[s] = "webhook_wait" => ENABLED Respond(s)

\* The handlers between a stored critical anomaly and the POST for it.
AboutToDispatch == {s \in Slots : pc[s] = "webhook"}

CriticalRows == {i \in DOMAIN anomalies : anomalies[i].severity = "critical"}

\* Every alert sent is for a critical evaluation and has its anomaly row.
AlertsAreCritical ==
    \A k \in DOMAIN dispatches :
        /\ dispatches[k].severity = "critical"
        /\ 2 * dispatches[k].count > 3 * Threshold(dispatches[k].signal_type)
        /\ \E i \in CriticalRows :
             /\ anomalies[i].user_id = dispatches[k].user_id
             /\ anomalies[i].detected_at = dispatches[k].detected_at
             /\ anomalies[i].count = dispatches[k].count

\* C10 (as stated; refuted): every acknowledged ingest that produced a
\* critical anomaly has made a dispatch attempt, and every dispatch attempt
\* is for a critical anomaly.
C10_CriticalAlwaysDispatches ==
    /\ \A s \in Slots :
         Ingested(s) /\ Evaluate(count[s], ThresholdOf(s)) = "critical"
         => AlertOf(s) \in Range(dispatches)
    /\ AlertsAreCritical

\* C10 (amended): with a webhook URL configured, every stored critical
\* anomaly gets exactly one dispatch attempt (made, or the next step of its
\* handler) and an acknowledged critical ingest has made its own; with no
\* URL configured no dispatch attempt is ever made; and no attempt is made
\* for a warning or for no anomaly.
C10_CriticalDispatchesIfConfigured ==
    /\ WEBHOOK_URL =>
         /\ \A s \in Slots :
              Ingested(s) /\ Evaluate(count[s], ThresholdOf(s)) = "critical"
              => AlertOf(s) \in Range(dispatches)
         /\ Len(dispatches) + Cardinality(AboutToDispatch)
              = Cardinality(CriticalRows)
    /\ ~WEBHOOK_URL => dispatches = <<>> /\ AboutToDispatch = {}
    /\ AlertsAreCritical

\* C10 witness: a URL is configured, a dispatch attempt has been made, and a
\* warning anomaly is stored beside the critical one.
C10_Witness ==
    /\ WEBHOOK_URL
    /\ Len(dispatches) >= 1
    /\ \E i \in DOMAIN anomalies : anomalies[i].severity = "warning"
    /\ \E s \in Slots :
         Ingested(s) /\ Evaluate(count[s], ThresholdOf(s)) = "critical"

\* The handler in slot s found count > thresh at line 129.
FoundBreach(s) ==
    /\ pc[s] \in {"zrange", "commit_anomaly", "webhook", "webhook_wait", "done"}
    /\ stored[s]
    /\ response[s] # "KeyError"
    /\ Breach(count[s], ThresholdOf(s))

\* C11 (as stated; refuted): every ingest whose breach evaluation found
\* count > threshold has stored its anomaly record when it ends.
C11_EveryBreachStoresOne ==
    \A s \in Slots :
        pc[s] = "done" /\ FoundBreach(s) => AnomalyOf(s) \in Range(anomalies)

\* C11 (amended): anomalies are not deduplicated.  An ingest that found
\* count > threshold stores exactly one new anomaly record when its anomaly
\* write succeeds, whatever records are stored already, and none when it ends
\* in an error (the write failed 3 times, or the earliest-timestamp read found
\* the window empty); no other step changes the table, and stored records are
\* never updated or removed.
C11_NoDeduplication ==
    [][/\ \A i \in DOMAIN anomalies :
             i \in DOMAIN anomalies' /\ anomalies'[i] = anomalies[i]
       /\ \A s \in Slots :
             pc[s] = "commit_anomaly" /\ pc'[s] \in {"webhook", "done"}
                                     /\ response'[s] # "RetryError"
             => /\ FoundBreach(s)
                /\ anomalies' = Append(anomalies, AnomalyOf(s))
       /\ anomalies' # anomalies
             => \E s \in Slots :
                   /\ pc[s] = "commit_anomaly" /\ pc'[s] \in {"webhook", "done"}
                   /\ Len(anomalies') = Len(anomalies) + 1
       /\ \A s \in Slots :
             pc'[s] = "done" /\ pc[s] # "done" /\ FoundBreach(s)'
                  /\ response'[s] # "ingested"
             => /\ response'[s] \in {"RetryError", "IndexError"}
                /\ anomalies' = anomalies
      ]_vars

\* C11 witness: a second anomaly is stored for a window that already has one.
C11_Witness ==
    \E i, j \in DOMAIN anomalies :
        /\ i < j
        /\ anomalies[i].user_id = anomalies[j].user_id
        /\ anomalies[i].window_start = anomalies[j].window_start

\* C12 (as stated; the code violates it): under a configuration whose
\* thresholds have no "default" key the service never accepts an ingest: no
\* handler runs, no event is stored and no window is updated.
C12_NoDefaultAbortsStartup ==
    ~has_default =>
        /\ \A s \in Slots : pc[s] = "idle"
        /\ events = <<>>
        /\ \A u \in Users : window[u] = {}

\* C13 (as stated; the code violates it): when an ingest reads the count,
\* the timestamp it recorded is in the window, however the expiry of the key
\* interleaves with its record and expiry-refresh steps.
C13_EvictionNeverLosesInsert ==
    \A s \in Slots :
        pc[s] = "zcard" => NowTs(evt[s]) \in window[Key(evt[s].user_id)]

\* C14 (as stated; the code violates it): the first ingest after an eviction
\* of its user's key, run alone and with no further eviction in between,
\* re-arms the expiry when it refreshes it and reads count 1, whatever the
\* evicted window held.
C14_FreshWindowAfterEviction ==
    [][\A s \in Slots :
         pc[s] # "idle" /\ since_evict[Key(evt[s].user_id)] = 1 =>
           /\ pc[s] = "expire" /\ pc'[s] # "expire"
                => /\ ttl'[Key(evt[s].user_id)]
                   /\ ~lapsed'[Key(evt[s].user_id)]
           /\ pc[s] = "zcard" /\ pc'[s] # "zcard"
                => count'[s] = 1
      ]_vars

\* C15 (as stated; the code violates it): in a run of ingests of one user,
\* one after the other, with consecutive time stamps more than 5 s apart,
\* the count an ingest reads after its prune is 1, the comparison with the
\* threshold (at least 1) fails and no anomaly is stored.
C15_SpacedEventsNeverAccumulate ==
    /\ anomalies = <<>>
    /\ \A s \in Slots :
          /\ pc[s] \in {"idle", "commit_event", "zadd", "expire",
                        "zremrangebyscore", "zcard", "done"}
          /\ pc[s] = "done" /\ stored[s]
                => /\ count[s] = 1
                   /\ ThresholdOf(s) >= 1
                   /\ response[s] = "ingested"

\* The stored events of the anomaly's user and signal type that are not
\* older than the horizon of the event that triggered it.
SameTypeInHorizon(a) ==
    {i \in DOMAIN events : /\ events[i].user_id = a.user_id
                           /\ events[i].signal_type = a.rule[1]
                           /\ events[i].timestamp > a.detected_at - HORIZON}

\* C16 (as stated; the code violates it): in a run of ingests one after the
\* other, an anomaly for signal type S is stored only when more events of
\* type S than the threshold of S lie within the horizon.
C16_BurstPerSignalType ==
    ~overlapped =>
        \A i \in DOMAIN anomalies :
            Cardinality(SameTypeInHorizon(anomalies[i]))
                > anomalies[i].rule[2]

\* C17: pruning is idempotent: a window pruned twice with the same cutoff is
\* the window pruned once, and the first prune left no member at or below
\* the cutoff for the second to remove.
C17_PruneIdempotent ==
    /\ pw.n >= 1 => \A m \in pw.once : ~(0 <= m /\ m <= pw.cutoff)
    /\ pw.n = 2 => pw.twice = pw.once

\* C17 witness: the first prune removed members and kept others, and the
\* second prune has run.
C17_Witness ==
    /\ pw.n = 2
    /\ pw.once # {}
    /\ Cardinality(pw.win \ pw.once) >= 2

\* The handler in slot s has not finished writing its event.
BeforeEventStored(s) == pc[s] \in {"idle", "commit_event"}

\* C18: the event is stored before the window is touched.  A handler that
\* records, refreshes, prunes or reads the window has committed its event
\* row; no step of a handler that has not yet stored its event changes the
\* window store, the anomaly store or the alert sink; and a handler whose
\* event write failed 3 times ends with the retry error at that step.
C18_EventStoredBeforeWindow ==
    [][\A s \in Slots :
         /\ pc[s] \in {"zadd", "expire", "zremrangebyscore", "zcard", "zrange"}
              => /\ stored[s]
                 /\ evt[s] \in Range(events)
         /\ BeforeEventStored(s) /\ (pc'[s] # pc[s] \/ attempts'[s] # attempts[s])
              => /\ window' = window
                 /\ ttl' = ttl
                 /\ anomalies' = anomalies
                 /\ dispatches' = dispatches
         /\ pc[s] = "commit_event" /\ pc'[s] = "done"
              => /\ response'[s] = "RetryError"
                 /\ attempts'[s] = MaxAttempts
                 /\ ~stored'[s]
                 /\ events' = events
      ]_vars

\* C18 witness: an event write has failed 3 times while the window of its
\* user holds the timestamp of an earlier ingest.
C18_Witness ==
    \E s \in Slots :
        /\ pc[s] = "done"
        /\ ~stored[s]
        /\ response[s] = "RetryError"
        /\ window[Key(evt[s].user_id)] # {}
        /\ NowTs(evt[s]) \notin window[Key(evt[s].user_id)]

\* The step is one of the handler in slot s, which has a request.
StepOf(s) ==
    /\ pc[s] # "idle"
    /\ pc'[s] # pc[s] \/ attempts'[s] # attempts[s]

\* The time stamps of the stored events of user u.
RecordedFor(u) == {NowTs(events[i]) : i \in EventRows(u)}

\* C19: ingests for different users are independent.  Every step of an
\* ingest for user u leaves the window and the expiry of every other user
\* unchanged; the count and the earliest timestamp it reads are those of
\* u's window, which holds only timestamps of u's own events.
C19_UsersIndependent ==
    [][\A s \in Slots :
         StepOf(s) =>
           /\ \A v \in Users \ {evt[s].user_id} :
                 window'[v] = window[v] /\ ttl'[v] = ttl[v]
           /\ window'[evt[s].user_id] \subseteq RecordedFor(evt[s].user_id)
           /\ pc[s] = "zcard"
                => count'[s] = Cardinality(window[evt[s].user_id])
           /\ pc[s] = "zrange" /\ pc'[s] = "commit_anomaly"
                => earliest'[s] \in window[evt[s].user_id]
      ]_vars

\* C19 witness: handlers of both users are in flight, both windows hold a
\* timestamp, and one of them has read its count.
C19_Witness ==
    \E s, q \in Slots :
        /\ evt[s].user_id = "u1"
        /\ evt[q].user_id = "u2"
        /\ pc[s] \in {"zrange", "done"}
        /\ pc[q] \in {"expire", "zremrangebyscore", "zcard"}
        /\ count[s] = Cardinality(window["u1"])
        /\ window["u1"] # {}
        /\ window["u2"] # {}
        /\ window["u1"] # window["u2"]

\* C20 (as stated; the code violates it): in every interleaving of concurrent
\* ingests of one user, the earliest-timestamp read of a breaching ingest
\* finds a member, and every stored anomaly has window_start <= detected_at,
\* detected_at - window_start < 5 and count above the threshold of its rule.
C20_AnomalyWellFormed ==
    /\ \A s \in Slots : response[s] # "IndexError"
    /\ \A i \in DOMAIN anomalies :
          /\ anomalies[i].window_start <= anomalies[i].detected_at
          /\ anomalies[i].detected_at - anomalies[i].window_start < HORIZON
          /\ anomalies[i].count > anomalies[i].rule[2]

====
